---- MODULE Spec2Model ----
(***************************************************************************)
(* Model of src/utils/ExpressionParser.js: the static                      *)
(* ExpressionFeatureCache (store, requests, get, clear), the fixpoint      *)
(* evaluator parseExpression and the batch evaluator                       *)
(* parseExpressionsAsync, running on a single-threaded event loop.  Every  *)
(* synchronous stretch of JavaScript (one parse/evaluate round, one fetch  *)
(* callback, one clear) is one atomic action.                              *)
(*                                                                         *)
(* The TimeManager component (src/unnamed/part_000) is modelled next to it *)
(* with its own next-state relation (TimeNext, TimeSpec): its state, its   *)
(* interval timer and the handlers that start and stop it.                 *)
(***************************************************************************)
EXTENDS Integers, Sequences, FiniteSets, TLC

(* ---------------------------- bounds ---------------------------------- *)
\* number of ExpressionFeatureCache.clear() calls the host makes
MaxClears == 1
\* number of top-level parseExpression calls
NumCalls == 2
\* number of setInterval calls the TimeManager makes
MaxIntervals == 3
\* largest timestamp (in hours) the animation is followed to
MaxStamp == 60

(* ------------------------- values and inputs -------------------------- *)
Null == "null"
Const == "const"
Records == {"recA"}
\* owner 0 is the parseExpressionsAsync call, owners 1.. the parseExpression calls
Batch == 0
Calls == 1..NumCalls
Owners == Calls \cup {Batch}

\* (dataset, attr, value) triples an expression may look up; the dataset is
\* mapPrefix + layerName.  The first and third triple differ but concatenate
\* to the same key.
LookupP == <<"map:parcels", "id", "42">>
LookupO == <<"map:owners", "pid", "7">>
LookupX == <<"map", "parcels:id", "42">>
Lookups == {LookupP, LookupO, LookupX}

\* const key = dataset + ":" + attr + ":" + value;
Key(l) == l[1] \o ":" \o l[2] \o ":" \o l[3]
Keys == {Key(l) : l \in Lookups}

\* What editIface.getFeatures hands to its callback: null/undefined, or an
\* object with a features list of any length.
Results ==
    {[ok |-> FALSE, features |-> <<>>]} \cup
    {[ok |-> TRUE, features |-> s] :
        s \in {<<>>, <<"recA">>, <<"recA", "recA">>}}

\* (result?.features || [])
Features(result) == IF result.ok THEN result.features ELSE <<>>

\* An expression text, described by what feeding it to the parser does:
\* the getFeature lookups its evaluation makes in order (chained: each lookup
\* is made only when the previous one returned a record), and whether
\* parser.feed throws ("before" any lookup, or "after" the lookups made).
Expr(deps, chained, fail) == [deps |-> deps, chained |-> chained, fail |-> fail]
ExprPlain == Expr(<<>>, FALSE, "none")
ExprP == Expr(<<LookupP>>, FALSE, "none")
ExprX == Expr(<<LookupX>>, FALSE, "none")
ExprChain == Expr(<<LookupP, LookupO>>, TRUE, "none")
ExprPair == Expr(<<LookupP, LookupO>>, FALSE, "none")
ExprBad == Expr(<<>>, FALSE, "before")
ExprBadAfter == Expr(<<LookupP>>, FALSE, "after")
Exprs == {ExprPlain, ExprP, ExprX, ExprChain, ExprPair, ExprBad, ExprBadAfter}

\* the (expr, asFilter) arguments collaborators call parseExpression with
Inputs == {<<ExprPlain, FALSE>>, <<ExprP, FALSE>>, <<ExprP, TRUE>>, <<ExprX, FALSE>>,
           <<ExprChain, FALSE>>, <<ExprPair, FALSE>>, <<ExprBad, FALSE>>,
           <<ExprBadAfter, TRUE>>}

\* length of the chain of lookups that depend on each other
Depth(e) == IF e.chained THEN Len(e.deps) ELSE IF Len(e.deps) > 0 THEN 1 ELSE 0

\* the named expressions of a parseExpressionsAsync call
Names == <<"x", "y">>
BatchInputs == {<<ExprPlain, ExprPlain>>, <<ExprPlain, ExprP>>, <<ExprBad, ExprP>>,
                <<ExprPlain, ExprChain>>, <<ExprP, ExprBadAfter>>}

(* ------------------------------ state --------------------------------- *)
VARIABLES
    store,      \* ExpressionFeatureCache.store: key -> record or null
    requests,   \* ExpressionFeatureCache.requests
    inflight,   \* getFeatures calls whose callback has not run yet
    clears,     \* number of clear() calls so far
    dispatches, \* per key, getFeatures calls since the last clear()
    ctx,        \* window.qwc2ExpressionParserContext (Absent or its owner)
    call,       \* per parseExpression call: position and observations
    batch       \* the parseExpressionsAsync call

cacheVars == <<store, requests, inflight, clears, dispatches, ctx, call, batch>>

VARIABLES
    active,         \* props.active of the TimeManager (state.task.id === "TimeManager")
    state,          \* this.state of the TimeManager
    animationTimer, \* this.animationTimer: NoTimer or an interval id
    intervals,      \* ids of the intervals running in the browser
    intervalCount   \* setInterval calls made so far (the last id handed out)

timeVars == <<active, state, animationTimer, intervals, intervalCount>>

vars == <<cacheVars, timeVars>>

\* the ambient slot when deleted
Absent == -1

IdleCall == [
    pc |-> "idle",          \* idle, waiting (Promise.all pending), done
    expr |-> ExprPlain,
    asFilter |-> FALSE,
    waiting |-> {},         \* promises of the last round not yet accepted
    rounds |-> 0,           \* rounds run so far
    firstPromises |-> 0,    \* promises.length of round 1
    firstMiss |-> {},       \* keys round 1 found unresolved
    hits |-> {},            \* keys some round read from a resolved entry
    cbCount |-> 0,          \* reevaluateCallback invocations
    threw |-> FALSE,        \* the last round's parser.feed threw
    retried |-> FALSE,      \* a round that threw scheduled another round
    cleared |-> 0,          \* clear() calls made while the call was in progress
    gen |-> 0,              \* clear() calls made before round 1
    settled |-> FALSE,      \* round 1 found every key of the expression resolved
    ret |-> [wrapped |-> FALSE, value |-> Null],   \* what round 1 returned
    last |-> [wrapped |-> FALSE, value |-> Null]   \* what the last round returned
]

IdleBatch == [
    pc |-> "idle",          \* idle, resolved
    exprs |-> <<ExprPlain, ExprPlain>>,
    passes |-> 0,           \* passes run
    resolvedPass |-> 0,     \* the pass whose results the promise resolved with
    resolvedPromises |-> 0, \* promises.length of that pass
    firstPromises |-> 0,    \* promises.length of pass 1
    present |-> {},         \* names present in the resolved mapping
    value |-> [n \in {} |-> Null],  \* the resolved mapping
    rejected |-> FALSE
]

(* ------------------------ TimeManager values -------------------------- *)
\* this.animationTimer = null
NoTimer == 0
\* currentTimestamp: "" (defaultState), NaN, or a time in hours
EmptyStamp == -1
NaN == -2

\* the sorted time dimension values the wms layers can bring: none, one, or a
\* timeline of three
LayerTimeValues == {<<>>, <<0>>, <<0, 24, 48>>}
\* values the NumberInput (min 1) hands to onChange
Speeds == {1, 2}
\* options of the unit select, with their length in hours
Units == {"h", "d"}
UnitHours(unit) == IF unit = "d" THEN 24 ELSE 1
\* where on the timeline a click lands, in percent of its width
Percents == {0, 50, 100}

\* static defaultState
defaultState == [
    animationActive |-> FALSE,
    animationSpeed |-> 1,
    animationSpeedUnit |-> "d",
    timeEnabled |-> FALSE,
    timeData |-> [values |-> <<>>],
    currentTimestamp |-> EmptyStamp,
    settingsPopup |-> FALSE
]

\* constructor(props)
TimeManagerConstructed ==
    /\ active = FALSE
    /\ state = defaultState
    /\ animationTimer = NoTimer
    /\ intervals = {}
    /\ intervalCount = 0

Init ==
    /\ store = [k \in {} |-> Null]
    /\ requests = {}
    /\ inflight = {}
    /\ clears = 0
    /\ dispatches = [k \in Keys |-> 0]
    /\ ctx = Absent
    /\ call = [c \in Calls |-> IdleCall]
    /\ batch = IdleBatch
    /\ TimeManagerConstructed

(* ----------------------- ExpressionFeatureCache ------------------------ *)
\* obj[key] = v
Put(f, k, v) == [x \in DOMAIN f \cup {k} |-> IF x = k THEN v ELSE f[x]]

\* The cache and the caller's promise list as one evaluation pass sees and
\* changes them; val is what the last get returned, made the number of gets
\* the pass has made.
PassState(owner, round) == [
    owner |-> owner, round |-> round,
    store |-> store, requests |-> requests, inflight |-> inflight,
    dispatches |-> dispatches,
    promises |-> {}, val |-> Null, made |-> 0, miss |-> {}, hits |-> {}]

\* A getFeatures call in flight; its promise is identified by the same record.
Fetch(st, lookup) ==
    [owner |-> st.owner, round |-> st.round, idx |-> st.made + 1, lookup |-> lookup, gen |-> clears]

\* CacheGet testing store[key] for truthiness instead of (key in store)
CacheGetTruthy(st, lookup) ==
    LET key == Key(lookup) IN
    IF key \in DOMAIN st.store /\ st.store[key] # Null
    THEN [st EXCEPT !.val = st.store[key], !.made = @ + 1, !.hits = @ \cup {key}]
    ELSE IF key \notin st.requests
    THEN [st EXCEPT !.requests = @ \cup {key},
                    !.promises = @ \cup {Fetch(st, lookup)},
                    !.inflight = @ \cup {Fetch(st, lookup)},
                    !.dispatches[key] = @ + 1,
                    !.val = Null, !.made = @ + 1, !.miss = @ \cup {key}]
    ELSE [st EXCEPT !.val = Null, !.made = @ + 1, !.miss = @ \cup {key}]

\* ExpressionFeatureCache.get(editIface, dataset, mapCrs, attr, value, promises)
CacheGet(st, lookup) ==
    LET key == Key(lookup) IN
    IF key \in DOMAIN st.store
    THEN [st EXCEPT !.val = st.store[key], !.made = @ + 1, !.hits = @ \cup {key}]
    ELSE IF key \notin st.requests
    THEN [st EXCEPT !.requests = @ \cup {key},
                    !.promises = @ \cup {Fetch(st, lookup)},
                    !.inflight = @ \cup {Fetch(st, lookup)},
                    !.dispatches[key] = @ + 1,
                    !.val = Null, !.made = @ + 1, !.miss = @ \cup {key}]
    ELSE [st EXCEPT !.val = Null, !.made = @ + 1, !.miss = @ \cup {key}]

\* OnResult without caching "no match": the key only leaves requests
OnResultDropAbsent(st, key, result) ==
    IF key \in st.requests
    THEN [store |-> IF Len(Features(result)) = 1
                    THEN Put(st.store, key, Features(result)[1]) ELSE st.store,
          requests |-> st.requests \ {key}]
    ELSE [store |-> st.store, requests |-> st.requests]

\* OnResult without the requests.has(key) guard
OnResultUnguarded(st, key, result) ==
    [store |-> Put(st.store, key,
                   IF Len(Features(result)) = 1 THEN Features(result)[1] ELSE Null),
     requests |-> st.requests \ {key}]

\* OnResult without this.requests.delete(key)
OnResultKeepRequest(st, key, result) ==
    IF key \in st.requests
    THEN [store |-> Put(st.store, key,
                        IF Len(Features(result)) = 1 THEN Features(result)[1] ELSE Null),
          requests |-> st.requests]
    ELSE [store |-> st.store, requests |-> st.requests]

\* the callback handed to editIface.getFeatures, up to accept()
OnResult(st, key, result) ==
    IF key \in st.requests
    THEN [store |-> Put(st.store, key,
                        IF Len(Features(result)) = 1 THEN Features(result)[1] ELSE Null),
          requests |-> st.requests \ {key}]
    ELSE [store |-> st.store, requests |-> st.requests]

\* Clear resetting the store only
ClearKeepRequests ==
    /\ clears < MaxClears
    /\ store' = [k \in {} |-> Null]
    /\ requests' = requests
    /\ clears' = clears + 1
    /\ dispatches' = [k \in Keys |-> 0]
    /\ call' = [c \in Calls |->
                  IF call[c].pc = "waiting" THEN [call[c] EXCEPT !.cleared = @ + 1] ELSE call[c]]
    /\ UNCHANGED <<inflight, ctx, batch>>

\* ExpressionFeatureCache.clear()
Clear ==
    /\ clears < MaxClears
    /\ store' = [k \in {} |-> Null]
    /\ requests' = {}
    /\ clears' = clears + 1
    /\ dispatches' = [k \in Keys |-> 0]
    /\ call' = [c \in Calls |->
                  IF call[c].pc = "waiting" THEN [call[c] EXCEPT !.cleared = @ + 1] ELSE call[c]]
    /\ UNCHANGED <<inflight, ctx, batch>>

(* ------------------- one parse/evaluate of one text ------------------- *)
\* the lookups parser.feed makes from position i on
RECURSIVE FeedFrom(_, _, _)
FeedFrom(e, i, st) ==
    IF i > Len(e.deps) THEN st
    ELSE IF e.chained /\ i > 1 /\ st.val = Null THEN st
    ELSE FeedFrom(e, i + 1, CacheGet(st, e.deps[i]))

\* parser.feed(expr.replace(/\n/, ' ')) inside its try block: the state after
\* the lookups, whether it threw, and parser.results[0]
Feed(e, st) ==
    IF e.fail = "before" THEN [st |-> st, threw |-> TRUE, result |-> Null]
    ELSE LET after == FeedFrom(e, 1, [st EXCEPT !.val = Null]) IN
         [st |-> after,
          threw |-> e.fail = "after",
          result |-> IF e.fail = "after" THEN Null
                     ELSE IF Len(e.deps) = 0 THEN Const
                     ELSE after.val]

(* --------------------------- parseExpression -------------------------- *)
\* window.qwc2ExpressionParserContext = {...} ... delete window.qwc2ExpressionParserContext
InstallContext(owner) == owner
\* DeleteContext without the delete statement
DeleteContextSkipped(installed) == installed
DeleteContext(installed) == Absent

\* RoundOutcome invoking reevaluateCallback on every final round
RoundOutcomeAlwaysCallback(fed, asFilter, reevaluate) ==
    IF fed.st.promises # {}
    THEN [again |-> TRUE, callback |-> 0, returned |-> [wrapped |-> FALSE, value |-> Null]]
    ELSE [again |-> FALSE, callback |-> 1,
          returned |-> [wrapped |-> asFilter, value |-> fed.result]]

\* RoundOutcome without lines 70-72: the result is never wrapped
RoundOutcomeNeverWrap(fed, asFilter, reevaluate) ==
    IF fed.st.promises # {}
    THEN [again |-> TRUE, callback |-> 0, returned |-> [wrapped |-> FALSE, value |-> Null]]
    ELSE [again |-> FALSE,
          callback |-> IF reevaluate THEN 1 ELSE 0,
          returned |-> [wrapped |-> FALSE, value |-> fed.result]]

\* Lines 62-74: what a round does once the parser has run: schedule another
\* round or finish, invoke reevaluateCallback or not, and what it returns.
RoundOutcome(fed, asFilter, reevaluate) ==
    IF fed.st.promises # {}
    THEN [again |-> TRUE, callback |-> 0, returned |-> [wrapped |-> FALSE, value |-> Null]]
    ELSE [again |-> FALSE,
          callback |-> IF reevaluate THEN 1 ELSE 0,
          returned |-> [wrapped |-> asFilter, value |-> fed.result]]

\* every key the expression can look up has a resolved entry
Settled(e) == \A i \in 1..Len(e.deps) : Key(e.deps[i]) \in DOMAIN store

\* one round of parseExpression(expr, feature, ..., asFilter, reevaluate)
ParseExpression(c, e, f, reevaluate) ==
    LET fed == Feed(e, PassState(c, call[c].rounds + 1))
        out == RoundOutcome(fed, f, reevaluate)
    IN
    /\ store' = fed.st.store
    /\ requests' = fed.st.requests
    /\ inflight' = fed.st.inflight
    /\ dispatches' = fed.st.dispatches
    /\ ctx' = DeleteContext(InstallContext(c))
    /\ call' = [call EXCEPT ![c] = [
           pc |-> IF out.again THEN "waiting" ELSE "done",
           expr |-> e,
           asFilter |-> f,
           waiting |-> IF out.again THEN fed.st.promises ELSE {},
           rounds |-> @.rounds + 1,
           firstPromises |-> IF reevaluate THEN @.firstPromises ELSE Cardinality(fed.st.promises),
           firstMiss |-> IF reevaluate THEN @.firstMiss ELSE fed.st.miss,
           hits |-> @.hits \cup fed.st.hits,
           cbCount |-> @.cbCount + out.callback,
           threw |-> fed.threw,
           retried |-> @.retried \/ (fed.threw /\ out.again),
           cleared |-> @.cleared,
           gen |-> IF reevaluate THEN @.gen ELSE clears,
           settled |-> IF reevaluate THEN @.settled ELSE Settled(e),
           ret |-> IF reevaluate THEN @.ret ELSE out.returned,
           last |-> out.returned]]
    /\ UNCHANGED <<clears, batch>>

\* a collaborator calls parseExpression(expr, feature, editIface, ..., asFilter)
\* (calls are numbered in the order they are made)
ParseExpressionCall(c) ==
    /\ call[c].pc = "idle"
    /\ \A d \in Calls : d < c => call[d].pc # "idle"
    /\ \E in \in Inputs : ParseExpression(c, in[1], in[2], FALSE)

\* Reevaluate not waiting for the promises of the round
ReevaluateEarly(c) ==
    /\ call[c].pc = "waiting"
    /\ ParseExpression(c, call[c].expr, call[c].asFilter, TRUE)

\* Promise.all(promises).then(() => parseExpression(..., true))
Reevaluate(c) ==
    /\ call[c].pc = "waiting"
    /\ call[c].waiting = {}
    /\ ParseExpression(c, call[c].expr, call[c].asFilter, TRUE)

\* editIface.getFeatures calls its callback with a result: lines 24-34
FetchCallback(f, result) ==
    /\ f \in inflight
    /\ LET o == OnResult([store |-> store, requests |-> requests], Key(f.lookup), result) IN
       /\ store' = o.store
       /\ requests' = o.requests
    /\ inflight' = inflight \ {f}
    /\ call' = [c \in Calls |-> [call[c] EXCEPT !.waiting = @ \ {f}]]
    /\ UNCHANGED <<clears, dispatches, ctx, batch>>

(* ------------------------ parseExpressionsAsync ----------------------- *)
\* ReduceStep without the try/catch: the exception leaves the executor
ReduceStepUncaught(res, i, fed) ==
    IF fed.threw THEN [res EXCEPT !.rejected = TRUE]
    ELSE [res EXCEPT !.value = Put(res.value, Names[i], fed.result)]

\* the reduce callback of lines 85-94 for the expression named Names[i]
ReduceStep(res, i, fed) ==
    IF fed.threw THEN res
    ELSE [res EXCEPT !.value = Put(res.value, Names[i], fed.result)]

\* Object.entries(expressions).reduce(...) from entry i on, sharing one
\* context and one promise list
RECURSIVE ReduceFrom(_, _, _, _)
ReduceFrom(exprs, i, st, res) ==
    IF i > Len(exprs) \/ res.rejected THEN [st |-> st, res |-> res]
    ELSE LET fed == Feed(exprs[i], st) IN
         ReduceFrom(exprs, i + 1, fed.st, ReduceStep(res, i, fed))

\* One pass of parseExpressionsAsync, with what line 98 does when evaluated:
\* the argument parseExpressionsAsync(...) is called at once, and so is
\* resolve(results) inside its .then( ), with this pass's results.
RECURSIVE BatchPass(_, _, _)
BatchPass(exprs, st, pass) ==
    LET red == ReduceFrom(exprs, 1, [st EXCEPT !.round = pass, !.promises = {}, !.made = 0],
                          [value |-> [n \in {} |-> Null], rejected |-> FALSE])
        own == [resolvedPass |-> pass,
                resolvedPromises |-> Cardinality(red.st.promises),
                value |-> red.res.value,
                rejected |-> red.res.rejected]
        deleted == DeleteContext(InstallContext(Batch))
    IN
    IF red.st.promises # {} /\ ~red.res.rejected
    THEN LET nested == BatchPass(exprs, red.st, pass + 1) IN
         [st |-> nested.st, passes |-> nested.passes, own |-> own,
          ctx |-> IF deleted = Absent THEN nested.ctx ELSE deleted]
    ELSE [st |-> red.st, passes |-> pass, own |-> own, ctx |-> deleted]

\* a collaborator calls parseExpressionsAsync(expressions, feature, ...)
ParseExpressionsAsyncCall ==
    /\ batch.pc = "idle"
    /\ \E exprs \in BatchInputs :
         LET run == BatchPass(exprs, PassState(Batch, 1), 1) IN
         /\ store' = run.st.store
         /\ requests' = run.st.requests
         /\ inflight' = run.st.inflight
         /\ dispatches' = run.st.dispatches
         /\ ctx' = run.ctx
         /\ batch' = [pc |-> IF run.own.rejected THEN "rejected" ELSE "resolved",
                      exprs |-> exprs,
                      passes |-> run.passes,
                      resolvedPass |-> run.own.resolvedPass,
                      resolvedPromises |-> run.own.resolvedPromises,
                      firstPromises |-> run.own.resolvedPromises,
                      present |-> DOMAIN run.own.value,
                      value |-> run.own.value,
                      rejected |-> run.own.rejected]
    /\ UNCHANGED <<clears, call>>

(* ----------------------------- TimeManager ---------------------------- *)
\* render() returns the window (with its close button) only when active
WindowRendered == active
\* ... and renderBody only when there are at least two time values
BodyRendered == active /\ Len(state.timeData.values) >= 2

\* (+timeValues[0]) || 0
FirstOrZero(values) == IF Len(values) > 0 /\ values[1] # 0 THEN values[1] ELSE 0

\* dayjs(currentTimestamp).add(speed, unit) as a number: an invalid date
\* ("" or NaN) stays invalid
AddTime(stamp, speed, unit) ==
    IF stamp \in {EmptyStamp, NaN} THEN NaN ELSE stamp + speed * UnitHours(unit)

\* clearInterval(this.animationTimer)
ClearInterval(running, id) == running \ {id}

\* componentDidUpdate, first branch: props.active went from true to false
\* (another task became the current task)
Deactivated ==
    /\ active
    /\ active' = FALSE
    /\ state' = defaultState
    /\ UNCHANGED <<animationTimer, intervals, intervalCount>>

\* props.active goes from false to true: setCurrentTask("TimeManager")
Activated ==
    /\ ~active
    /\ active' = TRUE
    /\ UNCHANGED <<state, animationTimer, intervals, intervalCount>>

\* componentDidUpdate, second branch: props.layerUUIds changed
LayersChanged(values) ==
    /\ values # state.timeData.values
    /\ state' = [state EXCEPT !.timeData = [values |-> values]]
    /\ UNCHANGED <<active, animationTimer, intervals, intervalCount>>

\* toggleTimeEnabled(enabled), from the ToggleSwitch of the rendered body
toggleTimeEnabled(enabled) ==
    /\ BodyRendered
    /\ intervals' = ClearInterval(intervals, animationTimer)
    /\ animationTimer' = NoTimer
    /\ state' = [state EXCEPT !.timeEnabled = enabled,
                              !.currentTimestamp = FirstOrZero(state.timeData.values),
                              !.animationActive = FALSE]
    /\ UNCHANGED <<active, intervalCount>>

\* pickCurrentTimestamp(ev), from a click on the time blocks
pickCurrentTimestamp(perc) ==
    /\ BodyRendered
    /\ state.timeEnabled
    /\ LET timeValues == state.timeData.values
           deltaT == timeValues[Len(timeValues)] - timeValues[1]
       IN state' = [state EXCEPT !.currentTimestamp = timeValues[1] + (perc * deltaT) \div 100]
    /\ UNCHANGED <<active, animationTimer, intervals, intervalCount>>

\* animationButtonClicked(action), from a button of the ButtonBar that is
\* not disabled: the bar when !timeEnabled, stop when !animationActive, play
\* when animationActive
animationButtonClicked(action) ==
    /\ BodyRendered
    /\ state.timeEnabled
    /\ action = "stop" => state.animationActive
    /\ action = "play" => ~state.animationActive
    /\ IF action = "rewind" THEN
           /\ intervals' = ClearInterval(intervals, animationTimer)
           /\ animationTimer' = NoTimer
           /\ state' = [state EXCEPT !.currentTimestamp = FirstOrZero(state.timeData.values),
                                     !.animationActive = FALSE]
           /\ UNCHANGED intervalCount
       ELSE IF action = "stop" THEN
           /\ intervals' = ClearInterval(intervals, animationTimer)
           /\ animationTimer' = NoTimer
           /\ state' = [state EXCEPT !.animationActive = FALSE]
           /\ UNCHANGED intervalCount
       ELSE
           /\ intervalCount < MaxIntervals
           /\ intervalCount' = intervalCount + 1
           /\ animationTimer' = intervalCount + 1
           /\ intervals' = intervals \cup {intervalCount + 1}
           /\ state' = [state EXCEPT !.animationActive = TRUE]
    /\ UNCHANGED active

\* a running interval fires: advanceAnimation()
advanceAnimation(id) ==
    /\ id \in intervals
    /\ LET timeValues == state.timeData.values
           newday == AddTime(state.currentTimestamp, state.animationSpeed,
                             state.animationSpeedUnit)
       IN
       IF Len(timeValues) > 0 /\ newday # NaN /\ newday > timeValues[Len(timeValues)]
       THEN /\ state' = [state EXCEPT !.currentTimestamp = timeValues[Len(timeValues)],
                                      !.animationActive = FALSE]
            /\ intervals' = ClearInterval(intervals, animationTimer)
            /\ animationTimer' = NoTimer
       ELSE /\ newday <= MaxStamp
            /\ state' = [state EXCEPT !.currentTimestamp = newday]
            /\ UNCHANGED <<animationTimer, intervals>>
    /\ UNCHANGED <<active, intervalCount>>

\* onClose: toggleTimeEnabled(false), then setCurrentTask(null) makes the
\* component inactive and componentDidUpdate resets the state
onClose ==
    /\ WindowRendered
    /\ intervals' = ClearInterval(intervals, animationTimer)
    /\ animationTimer' = NoTimer
    /\ active' = FALSE
    /\ state' = defaultState
    /\ UNCHANGED intervalCount

\* the settings button: setState({settingsPopup: !this.state.settingsPopup})
SettingsClicked ==
    /\ BodyRendered
    /\ state' = [state EXCEPT !.settingsPopup = ~state.settingsPopup]
    /\ UNCHANGED <<active, animationTimer, intervals, intervalCount>>

\* the NumberInput of the options: setState({animationSpeed: value})
SpeedChanged(value) ==
    /\ BodyRendered
    /\ state.settingsPopup
    /\ value # state.animationSpeed
    /\ state' = [state EXCEPT !.animationSpeed = value]
    /\ UNCHANGED <<active, animationTimer, intervals, intervalCount>>

\* the select of the options: setState({animationSpeedUnit: ev.target.value})
SpeedUnitChanged(unit) ==
    /\ BodyRendered
    /\ state.settingsPopup
    /\ unit # state.animationSpeedUnit
    /\ state' = [state EXCEPT !.animationSpeedUnit = unit]
    /\ UNCHANGED <<active, animationTimer, intervals, intervalCount>>

(* --------------------------- specification ---------------------------- *)
Next ==
    \/ \E c \in Calls : ParseExpressionCall(c) /\ UNCHANGED timeVars
    \/ \E c \in Calls : Reevaluate(c) /\ UNCHANGED timeVars
    \/ \E f \in inflight, result \in Results :
          FetchCallback(f, result) /\ UNCHANGED timeVars
    \/ Clear /\ UNCHANGED timeVars
    \/ ParseExpressionsAsyncCall /\ UNCHANGED timeVars

Spec == Init /\ [][Next]_vars

\* the events of the TimeManager, with the expression cache left alone
TimeNext ==
    \/ Activated /\ UNCHANGED cacheVars
    \/ Deactivated /\ UNCHANGED cacheVars
    \/ \E values \in LayerTimeValues : LayersChanged(values) /\ UNCHANGED cacheVars
    \/ \E enabled \in BOOLEAN : toggleTimeEnabled(enabled) /\ UNCHANGED cacheVars
    \/ \E perc \in Percents : pickCurrentTimestamp(perc) /\ UNCHANGED cacheVars
    \/ \E action \in {"rewind", "stop", "play"} :
          animationButtonClicked(action) /\ UNCHANGED cacheVars
    \/ \E id \in intervals : advanceAnimation(id) /\ UNCHANGED cacheVars
    \/ onClose /\ UNCHANGED cacheVars
    \/ SettingsClicked /\ UNCHANGED cacheVars
    \/ \E value \in Speeds : SpeedChanged(value) /\ UNCHANGED cacheVars
    \/ \E unit \in Units : SpeedUnitChanged(unit) /\ UNCHANGED cacheVars

TimeSpec == Init /\ [][TimeNext]_vars

TypeOK ==
    /\ DOMAIN store \subseteq Keys
    /\ \A k \in DOMAIN store : store[k] \in Records \cup {Null}
    /\ requests \subseteq Keys
    /\ clears \in 0..MaxClears
    /\ ctx \in Owners \cup {Absent}
    /\ \A c \in Calls : call[c].pc \in {"idle", "waiting", "done"}

(* ------------------------------ claims -------------------------------- *)
KeyOfP == Key(LookupP)
KeyOfO == Key(LookupO)
FetchesOf(k) == {f \in inflight : Key(f.lookup) = k}

\* C1: between two consecutive clear() calls, getFeatures is invoked at most
\* once for any cache key, however many get calls query the key.
SingleDispatch == \A k \in Keys : dispatches[k] <= 1

\* C1 witness: one dispatch served two calls that both asked for the key
\* while it was unresolved, and the key is resolved now.
SingleDispatchWitness ==
    \E k \in DOMAIN store :
        /\ dispatches[k] = 1
        /\ \E c \in Calls, d \in Calls :
             /\ c # d
             /\ k \in call[c].firstMiss
             /\ k \in call[d].firstMiss

\* C2 (as claimed): when two parseExpression calls need the same uncached key
\* and both ran their first round before the fetch completed, then once the
\* record is stored and nothing is left to run, both calls have read the
\* resolved record in a later round and had reevaluateCallback invoked.
BothCallsObserve ==
    \A c \in Calls, d \in Calls :
        ( /\ c # d
          /\ call[c].pc = "done" /\ call[d].pc = "done"
          /\ call[c].expr = ExprP /\ call[d].expr = ExprP
          /\ KeyOfP \in call[c].firstMiss /\ KeyOfP \in call[d].firstMiss
          /\ clears = 0 /\ batch.pc = "idle"
          /\ FetchesOf(KeyOfP) = {}
          /\ KeyOfP \in DOMAIN store /\ store[KeyOfP] \in Records )
        => ( /\ call[c].cbCount = 1 /\ call[c].last.value = store[KeyOfP]
             /\ call[d].cbCount = 1 /\ call[d].last.value = store[KeyOfP] )

\* C3 (as claimed): the promise returned by parseExpressionsAsync resolves
\* only with the mapping of a pass whose shared promise list was empty.
BatchResultFinal ==
    batch.pc = "resolved" => batch.resolvedPromises = 0

\* C4: reevaluateCallback is invoked at most once per top-level call; never
\* when round 1 had an empty promise list; not while a round is still
\* awaited; and exactly once when the call, whose round 1 had promises, has
\* reached its first round with an empty promise list.
ReevaluateCallbackCount ==
    \A c \in Calls :
        /\ call[c].cbCount <= 1
        /\ (call[c].pc # "idle" /\ call[c].firstPromises = 0) => call[c].cbCount = 0
        /\ call[c].pc = "waiting" => call[c].cbCount = 0
        /\ (call[c].pc = "done" /\ call[c].firstPromises > 0) => call[c].cbCount = 1

\* C4 witness: a call whose first two rounds both had promises has finished
\* with one callback, and another finished in round 1 without one.
ReevaluateCallbackWitness ==
    \E c \in Calls, d \in Calls :
        /\ call[c].pc = "done" /\ call[c].rounds >= 3 /\ call[c].cbCount = 1
        /\ call[d].pc = "done" /\ call[d].rounds = 1 /\ call[d].cbCount = 0

\* C5: a resolved entry (record or null) stays in the store with the same
\* value through every step that is not clear(), fetch completions included.
CacheMonotone ==
    [][clears' = clears =>
         \A k \in DOMAIN store : k \in DOMAIN store' /\ store'[k] = store[k]]_vars

\* C5 witness: a call has read a resolved entry for a key while another
\* fetch for that key is still to complete.
CacheMonotoneWitness ==
    \E k \in DOMAIN store :
        /\ FetchesOf(k) # {}
        /\ \E c \in Calls : k \in call[c].hits

\* C6 (as claimed): a finished call that made lookups has run at most as many
\* rounds as its dependency chain is deep.
FixpointWithinDepth ==
    \A c \in Calls :
        (call[c].pc = "done" /\ Depth(call[c].expr) > 0) =>
            call[c].rounds <= Depth(call[c].expr)

\* C6 (amended): at most Depth rounds end with pending promises, so the round
\* with zero pending promises is reached within Depth + 1 rounds; each
\* clear() that runs while the call is in progress allows up to Depth more.
FixpointWithinDepthPlusOne ==
    \A c \in Calls :
        LET allowed == Depth(call[c].expr) * (1 + call[c].cleared) IN
        /\ call[c].pc = "waiting" => call[c].rounds <= allowed
        /\ call[c].pc = "done" => call[c].rounds <= allowed + 1

\* C6 witness: a chain of depth 2 finished in exactly 3 rounds without
\* clear(), having read both resolved records.
FixpointWitness ==
    \E c \in Calls :
        /\ call[c].pc = "done" /\ call[c].expr = ExprChain
        /\ call[c].cleared = 0 /\ call[c].rounds = 3
        /\ KeyOfO \in call[c].hits

\* C7 (as claimed): a round whose parse throws schedules no further round and
\* the call returns a null result.
ParseFailureNotRetried ==
    \A c \in Calls :
        /\ ~call[c].retried
        /\ (call[c].pc = "done" /\ call[c].threw) => call[c].last.value = Null

\* C8: an expression whose parse throws is left out of the mapping, every
\* other expression of the batch is in it, and the promise is not rejected.
BatchFailureIsolated ==
    batch.pc # "idle" =>
        /\ batch.pc = "resolved"
        /\ ~batch.rejected
        /\ batch.present = {Names[i] : i \in {j \in 1..Len(Names) : batch.exprs[j].fail = "none"}}

\* C8 witness: a batch whose first expression failed to parse resolved with
\* the second expression in the mapping.
BatchFailureWitness ==
    /\ batch.pc = "resolved"
    /\ batch.exprs[1].fail # "none"
    /\ batch.present = {Names[2]}

\* C9 (as claimed): a key is in requests exactly when a getFeatures call for
\* it is in flight, and at most one is in flight per key.
PendingSetInvariant ==
    \A k \in Keys :
        /\ k \in requests <=> FetchesOf(k) # {}
        /\ Cardinality(FetchesOf(k)) <= 1

KeyState(st, rq, k) ==
    IF k \in DOMAIN st THEN "Resolved" ELSE IF k \in rq THEN "Pending" ELSE "Unrequested"

\* C10: in every step other than clear(), a key keeps its state or moves
\* Unrequested -> Pending or Pending -> Resolved.
KeyLifecycle ==
    [][clears' = clears =>
         \A k \in Keys :
             <<KeyState(store, requests, k), KeyState(store', requests', k)>> \in
                 {<<"Unrequested", "Unrequested">>, <<"Unrequested", "Pending">>,
                  <<"Pending", "Pending">>, <<"Pending", "Resolved">>,
                  <<"Resolved", "Resolved">>}]_vars

\* C10 witness: after a clear(), one key has been requested and resolved
\* again (with "no match") while a fetch from before is still in flight.
KeyLifecycleWitness ==
    \E k \in DOMAIN store :
        /\ clears >= 1
        /\ store[k] = Null
        /\ \E f \in inflight : f.gen < clears

\* a pass that has made no lookup yet, over the cache (s, r) with dispatch
\* counts d
Probe(s, r, d) ==
    [PassState(Batch, 0) EXCEPT !.store = s, !.requests = r, !.dispatches = d]

\* C11: a clear() step leaves store and requests empty, so that the next get
\* for any key returns null, pushes one promise and dispatches a fetch.
ClearIsTotal ==
    [][clears' # clears =>
         /\ DOMAIN store' = {}
         /\ requests' = {}
         /\ \A l \in Lookups :
              LET g == CacheGet(Probe(store', requests', dispatches'), l) IN
              /\ g.val = Null
              /\ Cardinality(g.promises) = 1
              /\ g.promises \subseteq g.inflight
              /\ Key(l) \in g.requests
              /\ g.dispatches[Key(l)] = 1]_vars

\* C11 witness: after a clear() a key that was pending before it has been
\* requested again, and a key resolved before it is unrequested.
ClearIsTotalWitness ==
    /\ clears >= 1
    /\ \E f \in inflight, g \in inflight :
         /\ f.gen < clears /\ g.gen = clears
         /\ Key(f.lookup) = Key(g.lookup)
    /\ \E c \in Calls : call[c].hits # {} /\ call[c].hits \cap (DOMAIN store \cup requests) = {}

\* C12: a round with an empty promise list returns the raw result, wrapped in
\* a one-element list exactly when asFilter is set; a round with a non-empty
\* promise list returns null, unwrapped, in both modes.
FilterResultShape ==
    \A c \in Calls :
        /\ call[c].pc = "waiting" => call[c].last = [wrapped |-> FALSE, value |-> Null]
        /\ call[c].pc = "done" =>
             /\ call[c].last.wrapped = call[c].asFilter
             /\ call[c].threw => call[c].last.value = Null
             /\ (~call[c].threw /\ Len(call[c].expr.deps) = 0) => call[c].last.value = Const
             /\ (~call[c].threw /\ Len(call[c].expr.deps) > 0) =>
                    call[c].last.value \in Records \cup {Null}
        /\ (call[c].pc # "idle" /\ call[c].firstPromises > 0) =>
             call[c].ret = [wrapped |-> FALSE, value |-> Null]
        /\ (call[c].pc # "idle" /\ call[c].firstPromises = 0) =>
             call[c].ret.wrapped = call[c].asFilter

\* C12 witness: a filter-mode call returned null from round 1 and the record
\* in a one-element list from a later round, and a normal-mode call returned
\* its record unwrapped.
FilterResultWitness ==
    \E c \in Calls, d \in Calls :
        /\ call[c].pc = "done" /\ call[c].asFilter /\ call[c].rounds >= 2
        /\ call[c].ret = [wrapped |-> FALSE, value |-> Null]
        /\ call[c].last = [wrapped |-> TRUE, value |-> "recA"]
        /\ call[d].pc = "done" /\ ~call[d].asFilter
        /\ call[d].last = [wrapped |-> FALSE, value |-> "recA"]

\* C13: a parseExpression call made when every key of its expression is
\* resolved finishes in its first round without invoking reevaluateCallback,
\* dispatches nothing, leaves store and requests as they were, and returns
\* what every earlier such call with the same arguments returned since the
\* last clear().
IdempotentAfterSettlement ==
    [][\A c \in Calls :
         (call[c].pc = "idle" /\ call'[c].pc # "idle" /\ Settled(call'[c].expr)) =>
            /\ call'[c].pc = "done"
            /\ call'[c].rounds = 1
            /\ call'[c].cbCount = 0
            /\ store' = store
            /\ requests' = requests
            /\ inflight' = inflight
            /\ dispatches' = dispatches
            /\ \A d \in Calls \ {c} :
                 ( /\ call[d].settled
                   /\ call[d].gen = clears
                   /\ call[d].expr = call'[c].expr
                   /\ call[d].asFilter = call'[c].asFilter )
                 => ( /\ call[d].pc = "done" /\ call[d].rounds = 1
                      /\ call'[c].ret = call[d].ret
                      /\ call'[c].last = call[d].last )]_vars

\* C13 witness: two calls with the same lookup were both made after its key
\* was resolved to a record, and both finished in one round.
IdempotentWitness ==
    \E c \in Calls, d \in Calls :
        /\ c # d
        /\ call[c].settled /\ call[d].settled
        /\ call[c].gen = call[d].gen
        /\ call[c].expr = ExprP /\ call[d].expr = ExprP
        /\ call[c].asFilter = call[d].asFilter
        /\ call[c].ret.value = "recA" /\ call[d].ret.value = "recA"

\* C14: when a call starts a round, no getFeatures call of its earlier rounds
\* is still in flight; the fetches it has in flight after the round are those
\* of this round, all awaited; and the round has made every lookup of the
\* expression (shown for expressions whose lookups do not depend on each
\* other) before anything is awaited.
RoundOrder ==
    [][\A c \in Calls :
         call'[c].rounds > call[c].rounds =>
            /\ \A f \in inflight : f.owner # c
            /\ \A f \in inflight' :
                 f.owner = c => (f.round = call'[c].rounds /\ f \in call'[c].waiting)
            /\ LET e == call'[c].expr IN
               (~e.chained /\ e.fail # "before") =>
                   \A i \in 1..Len(e.deps) : Key(e.deps[i]) \in DOMAIN store' \cup requests']_vars

\* C14 witness: a call whose round 1 pushed two promises has run a later
\* round.
RoundOrderWitness ==
    \E c \in Calls :
        /\ call[c].expr = ExprPair
        /\ call[c].firstPromises = 2
        /\ call[c].rounds >= 2

\* C15 (as claimed): once parseExpressionsAsync has re-run the batch, no
\* getFeatures call of an earlier pass is still in flight.
BatchRerunAfterSettle ==
    batch.passes >= 2 =>
        \A f \in inflight : ~(f.owner = Batch /\ f.round < batch.passes)

\* C16: a get for a key that is in requests returns null, pushes no promise,
\* dispatches no fetch and leaves store and requests as they are.
PendingLookupNoEffect ==
    \A l \in Lookups :
        Key(l) \in requests =>
            LET g == CacheGet(Probe(store, requests, dispatches), l) IN
            /\ g.val = Null
            /\ g.promises = {}
            /\ g.inflight = inflight
            /\ g.dispatches = dispatches
            /\ g.store = store
            /\ g.requests = requests

\* C16 witness: a call found its key pending in round 1, pushed nothing and
\* finished, and the key is still pending.
PendingLookupWitness ==
    \E c \in Calls, k \in requests :
        /\ call[c].pc = "done" /\ call[c].rounds = 1
        /\ call[c].firstMiss = {k}
        /\ call[c].firstPromises = 0
        /\ FetchesOf(k) # {}

\* C17: whenever a round or pass has returned, a fetch callback has run or
\* reevaluateCallback has been invoked, window.qwc2ExpressionParserContext
\* is absent.
AmbientContextAbsent == ctx = Absent

\* C17 witness: parseExpression rounds, a reevaluateCallback, a batch with a
\* re-run and a fetch callback have all happened, and rounds are still due.
AmbientContextWitness ==
    /\ ctx = Absent
    /\ batch.pc = "resolved" /\ batch.passes >= 2
    /\ \E c \in Calls : call[c].cbCount = 1
    /\ \E c \in Calls : call[c].pc = "waiting"

StoreRequestsDisjoint == DOMAIN store \cap requests = {}

\* C20 witness: after a clear(), one key is resolved and another pending
\* while a fetch from before the clear() is still in flight.
StoreRequestsWitness ==
    /\ clears >= 1
    /\ DOMAIN store # {}
    /\ requests # {}
    /\ \E f \in inflight : f.gen < clears

\* C21 (as claimed): the callback of a getFeatures call dispatched before a
\* clear() writes nothing into store once that clear() has happened, also
\* when the key was requested again after the clear().
NoStaleWriteAfterClear ==
    [][\A f \in inflight :
         (f \notin inflight' /\ f.gen < clears) => store' = store]_vars

\* C22 (as claimed): an interval timer is running only while
\* state.animationActive is true (this.animationTimer is null otherwise and
\* no interval is left running), and at most one interval is running.
TimerConsistency ==
    /\ (animationTimer # NoTimer \/ intervals # {}) => state.animationActive
    /\ Cardinality(intervals) <= 1

====
